---- MODULE Spec2Model ----
(***************************************************************************)
(* A model of the docview extension (src/src/extension.ts): the singleton  *)
(* documentation panel, the debounced selection-change handler, and the    *)
(* asynchronous hover-fetch / render cycle.                                *)
(*                                                                         *)
(* The extension runs on the host's single-threaded event loop, so every   *)
(* handler is atomic up to its first suspension point.  The suspension     *)
(* points are the debounce timer (setTimeout) and the hover query          *)
(* (await executeCommand).  A fetch-and-render cycle is therefore two      *)
(* steps: the step that issues the query, and HoverComplete, the           *)
(* continuation that runs when the host answers.                           *)
(***************************************************************************)
EXTENDS Integers, Sequences, FiniteSets, TLC

(***************************************************************************)
(* Bounds of the model.                                                    *)
(***************************************************************************)
MaxLine == 0
MaxCol == 1
MaxPanels == 2
MaxTimers == 3
MaxInflight == 2

(***************************************************************************)
(* The host environment: editors, their documents, positions.              *)
(***************************************************************************)
Editors == {"e1", "e2"}
NoEditor == "undefined"

\* vscode.Position: <<line, character>>.
Position == (0..MaxLine) \X (0..MaxCol)
NoPosition == <<>>

PanelIds == 1..MaxPanels
TimerIds == 1..MaxTimers

\* editor.document: the two editors show different documents.
document(e) == IF e = "e1" THEN "a.ts" ELSE "b.ts"

\* vscode.Position.isEqual: same line and same character.
isEqual(a, b) == a[1] = b[1] /\ a[2] = b[2]

(***************************************************************************)
(* Strings.  A value of type string | undefined is a record; Undefined is  *)
(* distinct from the empty string.                                         *)
(***************************************************************************)
Undefined == [defined |-> FALSE, value |-> ""]
Some(s) == [defined |-> TRUE, value |-> s]

\* The three-backtick fence of a markdown code block.
Fence == "[fence]"

\* One fragment of hover.contents.
MarkdownString(v) == [kind |-> "MarkdownString", language |-> "", value |-> v]
PlainString(v) == [kind |-> "string", language |-> "", value |-> v]
CodeBlock(l, v) == [kind |-> "code", language |-> l, value |-> v]
OtherObject == [kind |-> "other", language |-> "", value |-> ""]

\* One hover: its contents are an array of fragments, or a single fragment
\* that is not an array.
Hover(cs) == [isArray |-> TRUE, contents |-> cs]
HoverSingle(c) == [isArray |-> FALSE, contents |-> <<c>>]

\* Array.prototype.join: elements separated by sep.
RECURSIVE join(_, _)
join(strs, sep) ==
    IF Len(strs) = 0 THEN ""
    ELSE IF Len(strs) = 1 THEN strs[1]
    ELSE strs[1] \o sep \o join(Tail(strs), sep)

\* A callback that passes the value of a {language, value} fragment
\* through without the fence.
fragmentTextUnfenced(content) ==
    IF content.kind = "other" THEN "" ELSE content.value

\* The callback of hover.contents.map.
fragmentText(content) ==
    IF content.kind = "MarkdownString" THEN content.value
    ELSE IF content.kind = "string" THEN content.value
    ELSE IF content.kind = "code"
        THEN Fence \o content.language \o "\n" \o content.value \o "\n" \o Fence
    ELSE ""

\* The callback of hovers.map: undefined (joined as "") when contents is
\* not an array.
hoverText(hover) ==
    IF hover.isArray
    THEN join([i \in 1..Len(hover.contents) |-> fragmentText(hover.contents[i])], "\n")
    ELSE ""

\* What getHoverInfo returns once the host has answered with `hovers`
\* (a record: defined, entries).
getHoverInfo(hovers) ==
    IF hovers.defined /\ Len(hovers.entries) > 0
    THEN Some(join([i \in 1..Len(hovers.entries) |-> hoverText(hovers.entries[i])], "\n\n"))
    ELSE Undefined

\* md.render of the markdown-it library: the model keeps the source text
\* inside a marker, so that distinct documents render differently and no
\* non-empty document renders to the empty string.
mdRender(s) == "<md>" \o s \o "</md>"

ShellHead == "<html><body>"
ShellTail == "<script>Prism.highlightAll();</script></body></html>"

\* JavaScript truthiness of a string | undefined.
truthy(content) == content.defined /\ content.value # ""

\* A page builder that renders whatever it is given.
getWebviewContentAlwaysRender(content) ==
    ShellHead \o mdRender(content.value) \o ShellTail

getWebviewContent(content) ==
    LET htmlContent == IF truthy(content) THEN mdRender(content.value) ELSE ""
    IN  ShellHead \o htmlContent \o ShellTail

\* The host's hover providers: what vscode.executeHoverProvider answers for
\* a document and a position.
HoverProvider(doc, pos) ==
    LET n == (2 * pos[1] + pos[2] + (IF doc = "a.ts" THEN 0 ELSE 2)) % 4
    IN  IF n = 0 THEN [defined |-> TRUE, entries |-> <<>>]
        ELSE IF n = 1 THEN [defined |-> TRUE,
                            entries |-> <<Hover(<<MarkdownString("**bold**")>>),
                                          Hover(<<PlainString("plain")>>)>>]
        ELSE IF n = 2 THEN [defined |-> TRUE,
                            entries |-> <<Hover(<<CodeBlock("python", "print(1)"),
                                                  PlainString("doc")>>)>>]
        ELSE [defined |-> FALSE, entries |-> <<>>]

\* Lines 151-153: the page updateDocumentationContent(editor, position)
\* writes once the host has answered, getWebviewContent(docContent) for
\* docContent the value of getHoverInfo, tabulated by editor and position.
webviewContent ==
    [e \in Editors |-> [p \in Position |->
        getWebviewContent(getHoverInfo(HoverProvider(document(e), p)))]]

\* The answers of the host one call of getHoverInfo is examined on: every
\* list of at most MaxEntries hovers, each an array of at most MaxFragments
\* fragments or a single fragment, and the answer undefined.
MaxEntries == 2
MaxFragments == 2
SeqsUpTo(S, n) == UNION {[1..k -> S] : k \in 0..n}
Fragments ==
    {MarkdownString("**bold**"), PlainString("plain"),
     CodeBlock("python", "print(1)"), OtherObject}
Hovers ==
    {Hover(cs) : cs \in SeqsUpTo(Fragments, MaxFragments)}
        \cup {HoverSingle(c) : c \in Fragments \ {OtherObject}}
HoverAnswers ==
    {[defined |-> TRUE, entries |-> es] : es \in SeqsUpTo(Hovers, MaxEntries)}
        \cup {[defined |-> FALSE, entries |-> <<>>]}

(***************************************************************************)
(* State.                                                                  *)
(***************************************************************************)
VARIABLES
    docViewer,      \* the module-level singleton: a panel id, or 0 (undefined)
    lastPosition,   \* activate's lastPosition: a position, or NoPosition
    debounceTimer,  \* activate's debounceTimer: a timer handle, or 0 (undefined)
    timers,         \* host: the pending timeouts, [id, editor, position]
    inflight,       \* host: the hover queries awaiting an answer, oldest first
    livePanels,     \* host: the panels created and not yet disposed
    hooks,          \* host: the panels with an onDidDispose listener registered
    nextPanel,      \* host: the number of panels created so far
    html,           \* host: webview.html of each panel
    activeEditor,   \* host: vscode.window.activeTextEditor
    cursor,         \* host: editor.selection.active of each editor
    burst,          \* history: the selection-change events since the last
                    \*   timer firing, with the panel open throughout
    last,           \* history: the handler that ran last
    hovers,         \* getHoverInfo: the answer of the host it awaits
    info            \* getHoverInfo: [returned, result]

\* The extension and its host.
program == <<docViewer, lastPosition, debounceTimer, timers, inflight, livePanels,
             hooks, nextPanel, html, activeEditor, cursor, burst, last>>

\* One call of getHoverInfo taken alone.
fetcher == <<hovers, info>>

vars == <<program, fetcher>>

NoAnswer == [defined |-> FALSE, entries |-> <<>>]
NotReturned == [returned |-> FALSE, result |-> Undefined]

NoBurst == [n |-> 0, accepted |-> FALSE, position |-> NoPosition]

Did(op, via, branch, panel) ==
    [op |-> op, via |-> via, branch |-> branch, panel |-> panel]

Init ==
    /\ docViewer = 0
    /\ lastPosition = NoPosition
    /\ debounceTimer = 0
    /\ timers = {}
    /\ inflight = <<>>
    /\ livePanels = {}
    /\ hooks = {}
    /\ nextPanel = 0
    /\ html = [p \in PanelIds |-> ""]
    /\ activeEditor \in Editors \cup {NoEditor}
    /\ cursor = [e \in Editors |-> <<0, 0>>]
    /\ burst = NoBurst
    /\ last = Did("activate", "-", "-", 0)
    /\ hovers = NoAnswer
    /\ info = NotReturned

(***************************************************************************)
(* Helpers of the handlers.                                                *)
(***************************************************************************)
Min(S) == CHOOSE x \in S : \A y \in S : x <= y

\* The handles no pending timeout holds.  (The host never hands out a
\* handle twice; a handle whose timeout has fired or was cancelled is used
\* again here, which no handler can observe: debounceTimer is overwritten
\* in the step that allocates.)
FreeTimerIds == TimerIds \ {t.id : t \in timers}

\* clearTimeout(handle): a no-op for a timeout that has already fired.
clearTimeout(ts, handle) == {t \in ts : t.id # handle}

\* A handler that schedules without cancelling.
cancelPendingNever(ts, handle) == ts

\* Lines 35-37: if (debounceTimer) clearTimeout(debounceTimer).
cancelPending(ts, handle) == IF handle # 0 THEN clearTimeout(ts, handle) ELSE ts

\* setTimeout(callback, 100): the callback closes over editor and position.
setTimeout(ts, id, editor, position) ==
    ts \cup {[id |-> id, editor |-> editor, position |-> position]}

\* A handler without the short-circuit on an unchanged position.
samePositionNever(position, recorded) == FALSE

\* Line 30: lastPosition && position.isEqual(lastPosition).
samePosition(position, recorded) ==
    recorded # NoPosition /\ isEqual(position, recorded)

\* A fetch that aborts the queries still in flight.
startQueryAborting(queue, editor, position, panel) ==
    <<[editor |-> editor, position |-> position, panel |-> panel]>>

\* updateDocumentationContent up to its await: the hover query is issued
\* for (editor.document, position).  panel is the singleton at that moment.
startQuery(queue, editor, position, panel) ==
    Append(queue, [editor |-> editor, position |-> position, panel |-> panel])

\* The queue without its i-th query.
RemoveAt(queue, i) ==
    [j \in 1..(Len(queue) - 1) |-> IF j < i THEN queue[j] ELSE queue[j + 1]]

\* Line 145: if (editor), after the panel is ensured.
openFetches(editor) == editor # NoEditor

\* A completion that never writes.
writeAllowedNever(dv) == FALSE

\* updateDocumentationContent after its await: line 152, if (docViewer).
writeAllowed(dv) == dv # 0

\* A timer callback that always returns at line 41.
timerProceedsNever(dv) == FALSE

\* Line 40: the timer callback's re-check of the panel.
timerProceeds(dv) == dv # 0

\* Line 23: the selection handler's check of the panel.
handlerProceeds(dv) == dv # 0

\* An open command that always creates.
reusePanelNever(dv) == FALSE

\* Line 128: openDocViewer reuses the singleton when it is set.
reusePanel(dv) == dv # 0

\* Lines 141-143: the onDidDispose callback.
onDidDispose(dv) == 0

\* Lines 50 and 126: registerCommand hands openDocViewer the arguments of
\* the invocation as its parameter `context`.  The editor context menu
\* passes the editor's resource (an object); the command palette passes
\* nothing, so `context` is undefined.
contextDefined(via) == via = "menu"

\* Line 143: the arguments of docViewer.onDidDispose(...) are evaluated
\* before the call; context.subscriptions throws a TypeError when context
\* is undefined, and then no listener is registered and openDocViewer ends
\* there.
hookRegisters(via) == contextDefined(via)

\* The host refuses reveal() and the webview.html setter on a disposed
\* panel: they throw.
panelUsable(p) == p \in livePanels

(***************************************************************************)
(* The selection-change event: the host moves the selection of editor e to *)
(* p (p may be where it already is: the anchor alone changed) and runs the *)
(* handler of lines 22-46.                                                 *)
(***************************************************************************)
SelectionChange(e, p) ==
    /\ UNCHANGED fetcher
    /\ cursor' = [cursor EXCEPT ![e] = p]
    /\ UNCHANGED <<docViewer, inflight, livePanels, hooks, nextPanel, html, activeEditor>>
    /\ IF ~handlerProceeds(docViewer)
       THEN /\ UNCHANGED <<lastPosition, debounceTimer, timers, burst>>
            /\ last' = Did("select", "-", "nopanel", docViewer)
       ELSE IF activeEditor = NoEditor
       THEN /\ UNCHANGED <<lastPosition, debounceTimer, timers, burst>>
            /\ last' = Did("select", "-", "noeditor", docViewer)
       ELSE LET position == cursor'[activeEditor]
            IN  IF samePosition(position, lastPosition)
                THEN /\ UNCHANGED <<lastPosition, debounceTimer, timers>>
                     /\ burst' = IF livePanels = {} THEN burst
                                 ELSE [n |-> Min({burst.n + 1, 2}),
                                       accepted |-> burst.accepted,
                                       position |-> position]
                     /\ last' = Did("select", "-", "same", docViewer)
                ELSE /\ FreeTimerIds # {}
                     /\ lastPosition' = position
                     /\ debounceTimer' = Min(FreeTimerIds)
                     /\ timers' = setTimeout(cancelPending(timers, debounceTimer),
                                             Min(FreeTimerIds), activeEditor, position)
                     /\ burst' = IF livePanels = {} THEN burst
                                 ELSE [n |-> Min({burst.n + 1, 2}),
                                       accepted |-> TRUE,
                                       position |-> position]
                     /\ last' = Did("select", "-", "scheduled", docViewer)

(***************************************************************************)
(* The debounce timer fires: the callback of lines 39-44.                  *)
(***************************************************************************)
TimerFire(id) ==
  \E t \in timers :
    /\ UNCHANGED fetcher
    /\ t.id = id
    /\ timers' = timers \ {t}
    /\ burst' = NoBurst
    /\ UNCHANGED <<docViewer, lastPosition, debounceTimer, livePanels, hooks,
                   nextPanel, html, activeEditor, cursor>>
    /\ IF ~timerProceeds(docViewer)
       THEN /\ UNCHANGED inflight
            /\ last' = Did("timer", "-", "nopanel", docViewer)
       ELSE /\ Len(inflight) < MaxInflight
            /\ inflight' = startQuery(inflight, t.editor, t.position, docViewer)
            /\ last' = Did("timer", "-", "fetch", docViewer)

(***************************************************************************)
(* The host answers the i-th hover query in flight: getHoverInfo returns   *)
(* and updateDocumentationContent resumes at line 152.                     *)
(***************************************************************************)
HoverComplete(i) ==
    /\ UNCHANGED fetcher
    /\ i \in 1..Len(inflight)
    /\ LET q == inflight[i]
           answered == IF i = 1 THEN "oldest" ELSE "later"
       IN  /\ inflight' = RemoveAt(inflight, i)
           /\ IF ~writeAllowed(docViewer)
              THEN /\ UNCHANGED html
                   /\ last' = Did("hover", answered, "nopanel", q.panel)
              ELSE IF ~panelUsable(docViewer)
              THEN /\ UNCHANGED html
                   /\ last' = Did("hover", answered, "write threw", q.panel)
              ELSE /\ html' = [html EXCEPT ![docViewer] = webviewContent[q.editor][q.position]]
                   /\ last' = Did("hover", answered, "write", q.panel)
    /\ UNCHANGED <<docViewer, lastPosition, debounceTimer, timers, livePanels, hooks,
                   nextPanel, activeEditor, cursor, burst>>

(***************************************************************************)
(* The command docview.open: openDocViewer, lines 126-148.  The context    *)
(* menu entry is shown only when a text editor has focus; the command      *)
(* palette entry always.  A throw ends the handler where it happens: what  *)
(* it assigned before stays assigned.                                      *)
(***************************************************************************)
OpenDocViewer(via) ==
    /\ UNCHANGED fetcher
    /\ via = "menu" => activeEditor # NoEditor
    /\ UNCHANGED <<lastPosition, debounceTimer, timers, activeEditor, cursor, burst>>
    /\ LET editor == activeEditor
           fresh == nextPanel + 1
           \* Lines 145-147, reached when nothing above threw.
           Fetch(panel) ==
               IF openFetches(editor)
               THEN /\ Len(inflight) < MaxInflight
                    /\ inflight' = startQuery(inflight, editor, cursor[editor], panel)
               ELSE UNCHANGED inflight
       IN  IF reusePanel(docViewer)
           THEN /\ UNCHANGED <<docViewer, livePanels, hooks, nextPanel, html>>
                /\ IF panelUsable(docViewer)
                   THEN /\ Fetch(docViewer)
                        /\ last' = Did("open", via, "reveal", docViewer)
                   ELSE /\ UNCHANGED inflight
                        /\ last' = Did("open", via, "reveal threw", docViewer)
           ELSE /\ nextPanel < MaxPanels
                /\ nextPanel' = fresh
                /\ docViewer' = fresh
                /\ livePanels' = livePanels \cup {fresh}
                /\ html' = [html EXCEPT ![fresh] = ""]
                /\ IF hookRegisters(via)
                   THEN /\ hooks' = hooks \cup {fresh}
                        /\ Fetch(fresh)
                        /\ last' = Did("open", via, "create", docViewer)
                   ELSE /\ UNCHANGED <<hooks, inflight>>
                        /\ last' = Did("open", via, "create threw", docViewer)

(***************************************************************************)
(* The user dismisses panel p: the host disposes it, its webview content   *)
(* is gone, and the onDidDispose listener runs if one was registered on p. *)
(***************************************************************************)
DisposePanel(p) ==
    /\ UNCHANGED fetcher
    /\ p \in livePanels
    /\ livePanels' = livePanels \ {p}
    /\ html' = [html EXCEPT ![p] = ""]
    /\ hooks' = hooks \ {p}
    /\ docViewer' = IF p \in hooks THEN onDidDispose(docViewer) ELSE docViewer
    /\ burst' = NoBurst
    /\ last' = Did("dispose", "-", "-", p)
    /\ UNCHANGED <<lastPosition, debounceTimer, timers, inflight, nextPanel,
                   activeEditor, cursor>>

(***************************************************************************)
(* A host event that runs no code of the extension.                        *)
(***************************************************************************)
\* The active editor changes (or no editor is active any more).
FocusEditor(e) ==
    /\ UNCHANGED fetcher
    /\ e # activeEditor
    /\ activeEditor' = e
    /\ last' = Did("host", "-", "focus", docViewer)
    /\ UNCHANGED <<docViewer, lastPosition, debounceTimer, timers, inflight, livePanels,
                   hooks, nextPanel, html, cursor, burst>>

Next ==
    \/ \E e \in Editors, p \in Position : SelectionChange(e, p)
    \/ \E id \in TimerIds : TimerFire(id)
    \/ \E i \in 1..MaxInflight : HoverComplete(i)
    \/ \E via \in {"menu", "palette"} : OpenDocViewer(via)
    \/ \E p \in PanelIds : DisposePanel(p)
    \/ \E e \in Editors \cup {NoEditor} : FocusEditor(e)

Spec == Init /\ [][Next]_vars

(***************************************************************************)
(* The same handlers under fairness, in a session that starts with e1      *)
(* active and in which only the cursor of e1 moves; focus still passes     *)
(* between the two editors.                                                *)
(***************************************************************************)
FairInit == Init /\ activeEditor = "e1"

FairNext ==
    \/ \E p \in Position : SelectionChange("e1", p)
    \/ \E id \in TimerIds : TimerFire(id)
    \/ \E i \in 1..MaxInflight : HoverComplete(i)
    \/ \E via \in {"menu", "palette"} : OpenDocViewer(via)
    \/ \E p \in PanelIds : DisposePanel(p)
    \/ \E e \in Editors : FocusEditor(e)

\* The host answers the oldest hover query in flight: the step of
\* HoverComplete(1), told by what it does to the queue.
AnswerOldest == inflight # <<>> /\ inflight' = Tail(inflight)

\* The event loop runs a timeout that stays pending (strong fairness: in
\* the model a firing waits while MaxInflight queries are in flight, which
\* the code does not), and the host answers the oldest query in flight.
FairSpec ==
    /\ FairInit
    /\ [][FairNext]_vars
    /\ SF_vars(\E id \in TimerIds : TimerFire(id))
    /\ WF_inflight(AnswerOldest)

(***************************************************************************)
(* getHoverInfo taken alone: the host answers with any of HoverAnswers and *)
(* the function returns.                                                   *)
(***************************************************************************)
HoverInit ==
    /\ docViewer = 0
    /\ lastPosition = NoPosition
    /\ debounceTimer = 0
    /\ timers = {}
    /\ inflight = <<>>
    /\ livePanels = {}
    /\ hooks = {}
    /\ nextPanel = 0
    /\ html = [p \in PanelIds |-> ""]
    /\ activeEditor = "e1"
    /\ cursor = [e \in Editors |-> <<0, 0>>]
    /\ burst = NoBurst
    /\ last = Did("activate", "-", "-", 0)
    /\ hovers \in HoverAnswers
    /\ info = NotReturned

\* Lines 62-79: the await has resumed with `hovers`.
GetHoverInfo ==
    /\ ~info.returned
    /\ info' = [returned |-> TRUE, result |-> getHoverInfo(hovers)]
    /\ UNCHANGED <<hovers, program>>

HoverNext == GetHoverInfo

HoverSpec == HoverInit /\ [][HoverNext]_vars

(***************************************************************************)
(* Vocabulary of the properties.                                           *)
(***************************************************************************)
PanelOpen == livePanels # {}

\* The page a render of no content produces: the shell with an empty body.
EmptyPage == ShellHead \o ShellTail

\* The query a cycle for (editor, position) issues under panel.
Query(editor, position, panel) ==
    [editor |-> editor, position |-> position, panel |-> panel]

\* The host's answer for query q holds no hover entry (or is nothing).
NoEntries(q) ==
    LET answer == HoverProvider(document(q.editor), q.position)
    IN  ~answer.defined \/ Len(answer.entries) = 0

\* This step ran the named handler.
Ran(op) == last'.op = op

(***************************************************************************)
(* C1.  A burst is a run of selection-change events, handled with the      *)
(* panel open and an editor active, between which no debounce timer has    *)
(* fired; burst.position is the cursor position of its last event.         *)
(***************************************************************************)

\* C1 as stated: every burst of N >= 1 events starts exactly one
\* fetch-and-render, for the position of its last event.  While the burst
\* lasts that one fetch is owed: exactly one timer is pending and it holds
\* the position of the burst's last event.
C1_EveryBurstOwesOneFetch ==
    burst.n >= 1 =>
        /\ Cardinality(timers) = 1
        /\ \A t \in timers : t.position = burst.position

\* C1 amended: a burst in which some event's position differs from the
\* recorded one has exactly one timer pending, holding the position of the
\* burst's last event; when that timer fires with the panel open it issues
\* exactly one hover query, for that position, and leaves no timer pending.
\* An event of a burst in which no position differed from the recorded one
\* schedules no timer and issues no query.
C1_AcceptedBurstStartsOneFetch ==
    /\ [](burst.accepted =>
            /\ Cardinality(timers) = 1
            /\ \A t \in timers : t.position = burst.position)
    /\ [][(Ran("timer") /\ burst.accepted /\ PanelOpen) =>
            /\ Len(inflight') = Len(inflight) + 1
            /\ SubSeq(inflight', 1, Len(inflight)) = inflight
            /\ inflight'[Len(inflight')].position = burst.position
            /\ timers' = {}]_vars
    /\ [][(Ran("select") /\ burst'.n >= 1 /\ ~burst'.accepted) =>
            (timers' = timers /\ inflight' = inflight)]_vars

\* A burst of two or more events, one of them accepted, with its timer pending.
C1_Witness ==
    /\ burst.n >= 2
    /\ burst.accepted
    /\ timers # {}
    /\ PanelOpen

(***************************************************************************)
(* C2.                                                                     *)
(***************************************************************************)

\* C2: in every reachable state at most one panel is live (created and not
\* yet disposed).
C2_AtMostOneLivePanel == Cardinality(livePanels) <= 1

\* A second panel has been created and is the live one, with a query in flight.
C2_Witness ==
    /\ nextPanel = 2
    /\ livePanels = {2}
    /\ inflight # <<>>

(***************************************************************************)
(* C3.                                                                     *)
(***************************************************************************)

\* C3 as stated: the open command, invoked while a panel is open, starts
\* exactly one fetch-and-render.
C3_OpenWhileOpenAlwaysFetches ==
    [][(Ran("open") /\ PanelOpen) => Len(inflight') = Len(inflight) + 1]_vars

\* C3 amended: the open command, invoked while a panel is open, creates no
\* panel and keeps the singleton (the existing instance is revealed); if an
\* editor is active it issues exactly one hover query, for that editor's
\* cursor position, and if none is active it issues none.
C3_OpenWhileOpenReuses ==
    [][(Ran("open") /\ PanelOpen) =>
            /\ livePanels' = livePanels
            /\ nextPanel' = nextPanel
            /\ docViewer' = docViewer
            /\ docViewer' \in livePanels'
            /\ last'.branch = "reveal"
            /\ IF activeEditor # NoEditor
               THEN inflight' = Append(inflight,
                        Query(activeEditor, cursor[activeEditor], docViewer))
               ELSE inflight' = inflight]_vars

\* The open command has just revealed the open panel and issued its query.
C3_Witness ==
    /\ last.op = "open"
    /\ last.branch = "reveal"
    /\ last.panel = docViewer
    /\ docViewer \in livePanels
    /\ inflight # <<>>

(***************************************************************************)
(* C4.                                                                     *)
(***************************************************************************)

\* C4: once a panel has been dismissed and none is open, the open command,
\* from the context menu or from the command palette, creates a panel whose
\* identity no earlier panel had, and makes it the singleton.
C4_OpenAfterDismissCreatesFresh ==
    [][(Ran("open") /\ ~PanelOpen /\ nextPanel > 0) =>
            /\ docViewer' \notin 1..nextPanel
            /\ livePanels' = {docViewer'}]_vars

(***************************************************************************)
(* C5.  A query's cycle belongs to the panel that was the singleton when   *)
(* the query was issued (its panel field).                                 *)
(***************************************************************************)

\* C5 as stated: when the answer arrives for a query whose panel has been
\* dismissed in the meantime, no panel's HTML is written.
C5_StaleResponseNeverWritten ==
    [][(Ran("hover") /\ last'.panel \notin livePanels) => html' = html]_vars

(***************************************************************************)
(* C6.                                                                     *)
(***************************************************************************)

\* C6: a selection-change event whose active position equals the recorded
\* one, by line and by character, leaves the recorded position, the pending
\* timer and its handle, the queries in flight and the panel HTML as they
\* were, whether or not a panel is open.
C6_SamePositionIgnored ==
    [][(/\ Ran("select")
        /\ activeEditor # NoEditor
        /\ lastPosition # NoPosition
        /\ cursor'[activeEditor][1] = lastPosition[1]
        /\ cursor'[activeEditor][2] = lastPosition[2])
       => UNCHANGED <<lastPosition, timers, debounceTimer, inflight, html>>]_vars

\* An event at the recorded position has just been ignored with the panel
\* open and a timer pending; the timer is still pending.
C6_Witness ==
    /\ last.op = "select"
    /\ last.branch = "same"
    /\ PanelOpen
    /\ timers # {}
    /\ activeEditor # NoEditor
    /\ cursor[activeEditor] = lastPosition

(***************************************************************************)
(* C7.                                                                     *)
(***************************************************************************)

\* C7: a selection-change event handled while no panel is open leaves the
\* recorded position, the pending timer and its handle, the queries in
\* flight and the panel HTML as they were.
C7_NoPanelEventDoesNothing ==
    [][(Ran("select") /\ ~PanelOpen)
       => UNCHANGED <<lastPosition, timers, debounceTimer, inflight, html>>]_vars

(***************************************************************************)
(* C8.                                                                     *)
(***************************************************************************)

\* C8: a debounce timer that fires while no panel is open issues no hover
\* query and writes no panel HTML.
C8_TimerWithoutPanelDoesNothing ==
    [][(Ran("timer") /\ ~PanelOpen) => (inflight' = inflight /\ html' = html)]_vars

(***************************************************************************)
(* C9.                                                                     *)
(***************************************************************************)

C10_OpenEnsuresPanelAndFetchesOnce ==
    [][Ran("open") =>
            /\ docViewer' \in livePanels'
            /\ IF activeEditor # NoEditor
               THEN inflight' = Append(inflight,
                        Query(activeEditor, cursor[activeEditor], docViewer'))
               ELSE inflight' = inflight]_vars

(***************************************************************************)
(* C11.                                                                    *)
(***************************************************************************)

\* C11: every live panel has a disposal listener registered; the singleton
\* is set if and only if a panel is live, and then it is that panel; and no
\* handler has just tried to reveal, or to write the HTML of, a disposed
\* panel.
C11_ReferenceSetIffLive ==
    /\ livePanels \subseteq hooks
    /\ (docViewer # 0) <=> (livePanels # {})
    /\ docViewer # 0 => docViewer \in livePanels
    /\ last.branch \notin {"reveal threw", "write threw"}

(***************************************************************************)
(* C12.                                                                    *)
(***************************************************************************)

\* C12: at most one hover query is in flight at any time.
C12_AtMostOneQueryInFlight == Len(inflight) <= 1

(***************************************************************************)
(* C13.                                                                    *)
(***************************************************************************)

\* C13: in every reachable state at most one debounce timer is pending, and
\* a selection-change event that records a new position leaves exactly its
\* own timer pending (whatever was pending before is cancelled), with
\* debounceTimer its handle.
C13_AtMostOnePendingTimer ==
    /\ [](Cardinality(timers) <= 1)
    /\ [][(Ran("select") /\ lastPosition' # lastPosition) =>
            timers' = {[id |-> debounceTimer',
                        editor |-> activeEditor,
                        position |-> lastPosition']}]_vars

\* An accepted event has just replaced the timer an earlier event of the
\* same burst had scheduled.
C13_Witness ==
    /\ last.op = "select"
    /\ last.branch = "scheduled"
    /\ burst.n >= 2
    /\ Cardinality(timers) = 1
    /\ \A t \in timers : t.id = debounceTimer /\ t.position = lastPosition

(***************************************************************************)
(* C14.                                                                    *)
(***************************************************************************)

\* Strings separated by sep, taken from the right.
RECURSIVE Separated(_, _)
Separated(strs, sep) ==
    IF Len(strs) = 0 THEN ""
    ELSE IF Len(strs) = 1 THEN strs[1]
    ELSE Separated(SubSeq(strs, 1, Len(strs) - 1), sep) \o sep \o strs[Len(strs)]

\* A fenced code block tagged with its language around its value.
Fenced(language, value) == Fence \o language \o "\n" \o value \o "\n" \o Fence

\* The host answered with a sequence of entries, each a sequence of
\* markdown, plain and {language, value} fragments.
EntriesOfFragments ==
    /\ hovers.defined
    /\ \A i \in 1..Len(hovers.entries) :
          /\ hovers.entries[i].isArray
          /\ \A j \in 1..Len(hovers.entries[i].contents) :
                hovers.entries[i].contents[j].kind \in {"MarkdownString", "string", "code"}

\* C14: when getHoverInfo has returned for a sequence of entries of
\* fragments, its result is undefined for zero entries; otherwise it is
\* the entries' texts separated by a blank line, an entry's text being its
\* fragments separated by a newline, a {language, value} fragment fenced
\* and any other fragment verbatim.
C14_HoverInfoIsJoinedFragments ==
    (info.returned /\ EntriesOfFragments) =>
        LET Text(c) == IF c.kind = "code" THEN Fenced(c.language, c.value) ELSE c.value
            EntryText(h) == Separated([j \in 1..Len(h.contents) |-> Text(h.contents[j])], "\n")
        IN  IF Len(hovers.entries) = 0
            THEN info.result = Undefined
            ELSE info.result =
                     Some(Separated([i \in 1..Len(hovers.entries) |->
                                        EntryText(hovers.entries[i])], "\n\n"))

\* getHoverInfo has returned for two entries, the first holding a code
\* fragment followed by a plain one.
C14_Witness ==
    /\ info.returned
    /\ EntriesOfFragments
    /\ Len(hovers.entries) = 2
    /\ hovers.entries[1].contents = <<CodeBlock("python", "print(1)"), PlainString("plain")>>
    /\ hovers.entries[2].contents = <<MarkdownString("**bold**")>>
    /\ info.result.defined

(***************************************************************************)
(* C15.                                                                    *)
(***************************************************************************)

\* C15: a timer firing with the panel open and an editor active issues its
\* hover query for the editor active at that moment and that editor's
\* cursor position at that moment.
C15_TimerQueriesCurrentEditor ==
    [][(Ran("timer") /\ PanelOpen /\ docViewer \in livePanels
            /\ activeEditor # NoEditor) =>
          inflight' = Append(inflight,
                             Query(activeEditor, cursor[activeEditor], docViewer))]_vars

(***************************************************************************)
(* C16.                                                                    *)
(***************************************************************************)

\* The page for the host's answer to query q.
Rendering(q) == webviewContent[q.editor][q.position]

\* C16: whichever query in flight is answered while a panel is open, the
\* step sets the HTML of the open panel to the page for that query's
\* answer and leaves the other panels' HTML alone, whatever the order in
\* which the queries were started.
C16_EveryCompletionOverwrites ==
    [][\A i \in 1..Len(inflight) :
          (Ran("hover") /\ PanelOpen /\ inflight' = RemoveAt(inflight, i)) =>
              html' = [html EXCEPT ![docViewer] = Rendering(inflight[i])]]_vars

\* Two queries overlapped and the one started later was answered first:
\* its page is written while the older query, whose page differs, is still
\* to complete.
C16_Witness ==
    /\ last.op = "hover"
    /\ last.via = "later"
    /\ last.branch = "write"
    /\ Len(inflight) = 1
    /\ PanelOpen
    /\ html[docViewer] # Rendering(inflight[1])

(***************************************************************************)
(* C17.                                                                    *)
(***************************************************************************)

\* A timer scheduled for (e, p) is pending.
Pending(e, p) == \E t \in timers : t.editor = e /\ t.position = p

\* A hover query for (e, p) is in flight.
InFlight(e, p) ==
    \E i \in 1..Len(inflight) : inflight[i].editor = e /\ inflight[i].position = p

\* C17: with the panel open, a timer an accepted event scheduled for
\* (e, p) leads to the panel closed, or the timer replaced by a later
\* event, or the timer fired and its query for (e, p) issued; and a query
\* for (e, p) in flight leads to the panel closed or the page for its
\* answer written to the panel.
C17_AcceptedEventIsEventuallyShown ==
    \A e \in Editors : \A p \in Position :
        /\ (Pending(e, p) /\ PanelOpen) ~>
               \/ ~PanelOpen
               \/ ~Pending(e, p) /\ last.op = "select"
               \/ /\ ~Pending(e, p)
                  /\ last.op = "timer"
                  /\ last.branch = "fetch"
                  /\ inflight # <<>>
                  /\ inflight[Len(inflight)].editor = e
                  /\ inflight[Len(inflight)].position = p
        /\ (InFlight(e, p) /\ PanelOpen) ~>
               \/ ~PanelOpen
               \/ /\ last.op = "hover"
                  /\ last.branch = "write"
                  /\ html[docViewer] = Rendering(Query(e, p, docViewer))

\* The timer of an accepted event has fired with the panel open and its
\* query, for the recorded position, has been answered and written.
C17_Witness ==
    /\ PanelOpen
    /\ last.op = "hover"
    /\ last.branch = "write"
    /\ timers = {}
    /\ inflight = <<>>
    /\ lastPosition # NoPosition
    /\ activeEditor # NoEditor
    /\ html[docViewer] = Rendering(Query(activeEditor, lastPosition, docViewer))

(***************************************************************************)
(* C18.                                                                    *)
(***************************************************************************)

\* No timer is pending and no hover query is in flight.
Quiescent == timers = {} /\ inflight = <<>>

\* C18: in every quiescent state with an editor active and a panel open
\* that an open command created and ran to completion for, the panel
\* shows the page for the active editor's document at its cursor.
C18_QuiescentPanelShowsCurrent ==
    (Quiescent /\ PanelOpen /\ docViewer \in livePanels \cap hooks
        /\ activeEditor # NoEditor) =>
        html[docViewer] = webviewContent[activeEditor][cursor[activeEditor]]

(***************************************************************************)
(* C19.                                                                    *)
(***************************************************************************)

\* C19: a dismissal leaves the pending timer, its handle, the queries in
\* flight and the recorded position as they are, and changes docViewer, if
\* at all, to undefined; an open command leaves the timer, its handle and
\* the recorded position as they are and keeps every query in flight, in
\* order, adding at most its own.
C19_DismissalTouchesOnlyReference ==
    /\ [][Ran("dispose") =>
            /\ UNCHANGED <<timers, debounceTimer, inflight, lastPosition>>
            /\ docViewer' \in {0, docViewer}]_vars
    /\ [][Ran("open") =>
            /\ UNCHANGED <<timers, debounceTimer, lastPosition>>
            /\ Len(inflight') >= Len(inflight)
            /\ SubSeq(inflight', 1, Len(inflight)) = inflight]_vars

\* A panel was dismissed while a timer was pending and a query in flight,
\* and a new panel has been opened since: the timer, the older query and
\* the recorded position are still there.
C19_Witness ==
    /\ last.op = "open"
    /\ last.branch = "create"
    /\ nextPanel = 2
    /\ timers # {}
    /\ lastPosition # NoPosition
    /\ Len(inflight) = 2
    /\ inflight[1].panel = 1
    /\ inflight[2].panel = 2

(***************************************************************************)
(* C20.                                                                    *)
(***************************************************************************)

\* C20: every pending timer captured the recorded position; and a step
\* changes the recorded position only if it is a selection-change event
\* with a panel open, an editor active and that editor's cursor not at the
\* recorded position, in which case the new record is that cursor and the
\* only pending timer afterwards is the one the step scheduled.
C20_TimerCapturesRecordedPosition ==
    /\ [](\A t \in timers : t.position = lastPosition)
    /\ [][lastPosition' # lastPosition =>
            /\ Ran("select")
            /\ PanelOpen
            /\ activeEditor # NoEditor
            /\ ~samePosition(cursor'[activeEditor], lastPosition)
            /\ lastPosition' = cursor'[activeEditor]
            /\ timers' = {[id |-> debounceTimer',
                           editor |-> activeEditor,
                           position |-> lastPosition']}]_vars

====
